---- MODULE Spec2Model ----
(***************************************************************************)
(* Model of generate_outfits.py: the outfit resolution pipeline that fuses *)
(* the scraped wiki table, the canonical lookType index and the reference  *)
(* catalogue (outfits.xml) into one appearance descriptor per NPC name.    *)
(*                                                                         *)
(* Text is modelled as a sequence of one-character strings, so that strip, *)
(* split, startswith and int() are computed and not assumed.  A Python     *)
(* dict is a function whose DOMAIN is its key set; the output dict, whose  *)
(* insertion order the final sort observes, is a sequence of <<key, value>>*)
(* pairs.  An Optional[int] is <<>> (None) or <<n>>.                       *)
(***************************************************************************)
EXTENDS Integers, Sequences, FiniteSets, TLC

VARIABLES
    pc,                  \* position of main(): fetch_page, build_map, load_xml, rows, write, done, aborted
    wikitext,            \* text returned by fetch_page_wikitext
    rows,                \* triples of parse_wikitext_rows still to be processed
    processed,           \* triples already taken from the generator, in order
    db,                  \* tibiawiki.db: <<>> when the file is absent, <<outfit rows>> otherwise
    batch_i,             \* start index i of the next batch of build_looktype_map
    looktype_map,        \* canonical index: lookType -> [outfit_id, outfit_name, sex]
    xml_file,            \* outfits.xml: <<>> when absent, <<elements>> otherwise
    outfits_xml_lookup,  \* reference direct index: lookType -> [outfit_name, sex]
    outfits_xml_order,   \* reference ordered lists: sex -> sequence of <<lookType, info>>
    outfit_info,         \* descriptor of the row being resolved (the loop variable)
    template_params,     \* parsed template of the row being resolved
    rpc,                 \* position inside the loop body of the row being resolved
    outfits,             \* output dict, in insertion order
    out_file,            \* outfits.json on disk
    log,                 \* operations performed so far, in order
    fn,                  \* the pure function under check
    arg,                 \* its input
    res                  \* its output

vars == <<pc, wikitext, rows, processed, db, batch_i, looktype_map, xml_file,
          outfits_xml_lookup, outfits_xml_order, outfit_info, template_params,
          rpc, outfits, out_file, log, fn, arg, res>>

(***************************************************************************)
(* Python str and int primitives                                           *)
(***************************************************************************)
Whitespace == {" ", "\t", "\n", "\r"}

Digits == {"0", "1", "2", "3", "4", "5", "6", "7", "8", "9"}

DigitVal ==
    ("0" :> 0) @@ ("1" :> 1) @@ ("2" :> 2) @@ ("3" :> 3) @@ ("4" :> 4) @@
    ("5" :> 5) @@ ("6" :> 6) @@ ("7" :> 7) @@ ("8" :> 8) @@ ("9" :> 9)

ToLower ==
    ("A" :> "a") @@ ("B" :> "b") @@ ("C" :> "c") @@ ("D" :> "d") @@ ("E" :> "e") @@
    ("F" :> "f") @@ ("G" :> "g") @@ ("H" :> "h") @@ ("I" :> "i") @@ ("J" :> "j") @@
    ("K" :> "k") @@ ("L" :> "l") @@ ("M" :> "m") @@ ("N" :> "n") @@ ("O" :> "o") @@
    ("P" :> "p") @@ ("Q" :> "q") @@ ("R" :> "r") @@ ("S" :> "s") @@ ("T" :> "t") @@
    ("U" :> "u") @@ ("V" :> "v") @@ ("W" :> "w") @@ ("X" :> "x") @@ ("Y" :> "y") @@
    ("Z" :> "z")

\* str.lower()
Lower(s) == [i \in 1..Len(s) |-> IF s[i] \in DOMAIN ToLower THEN ToLower[s[i]] ELSE s[i]]

RECURSIVE LStrip(_)
LStrip(s) == IF s # <<>> /\ Head(s) \in Whitespace THEN LStrip(Tail(s)) ELSE s

RECURSIVE RStrip(_)
RStrip(s) ==
    IF s # <<>> /\ s[Len(s)] \in Whitespace THEN RStrip(SubSeq(s, 1, Len(s) - 1)) ELSE s

\* str.strip()
Strip(s) == LStrip(RStrip(s))

\* str.startswith(p)
StartsWith(s, p) == Len(s) >= Len(p) /\ SubSeq(s, 1, Len(p)) = p

\* str.endswith(p)
EndsWith(s, p) == Len(s) >= Len(p) /\ SubSeq(s, Len(s) - Len(p) + 1, Len(s)) = p

\* s[n:]
DropFirst(s, n) == SubSeq(s, n + 1, Len(s))

\* s[:-n]
DropLast(s, n) == SubSeq(s, 1, Len(s) - n)

\* the places where sep occurs in s
Occurrences(s, sep) ==
    {i \in 1..(Len(s) - Len(sep) + 1) : \A k \in 1..Len(sep) : s[i + k - 1] = sep[k]}

\* s.find(sep), counted from 1; 0 when sep does not occur
Find(s, sep) ==
    LET occ == Occurrences(s, sep)
    IN IF occ = {} THEN 0 ELSE CHOOSE i \in occ : \A j \in occ : i <= j

\* str.split(sep): leftmost non-overlapping occurrences, empty segments kept
RECURSIVE Split(_, _)
Split(s, sep) ==
    LET at == Find(s, sep)
    IN IF at = 0 THEN <<s>>
       ELSE <<SubSeq(s, 1, at - 1)>> \o Split(DropFirst(s, at - 1 + Len(sep)), sep)

RECURSIVE Join(_, _)
Join(parts, sep) ==
    IF parts = <<>> THEN <<>>
    ELSE IF Len(parts) = 1 THEN parts[1]
         ELSE parts[1] \o sep \o Join(Tail(parts), sep)

\* sep in s
Contains(s, sep) == Find(s, sep) # 0

\* str.split(sep, 1): <<before, after>> of the first occurrence, <<s>> when there is none
SplitOnce(s, sep) ==
    LET at == Find(s, sep)
    IN IF at = 0 THEN <<s>>
       ELSE <<SubSeq(s, 1, at - 1), DropFirst(s, at - 1 + Len(sep))>>

\* str.splitlines() for "\n" line ends: a trailing line end opens no further line
SplitLines(s) ==
    LET parts == Split(s, <<"\n">>)
    IN IF parts[Len(parts)] = <<>> THEN DropLast(parts, 1) ELSE parts

IsDigits(s) == s # <<>> /\ \A i \in 1..Len(s) : s[i] \in Digits

RECURSIVE DigitsValue(_)
DigitsValue(s) ==
    IF s = <<>> THEN 0 ELSE 10 * DigitsValue(DropLast(s, 1)) + DigitVal[s[Len(s)]]

\* int(s): <<n>>, or <<>> where Python raises ValueError
PyInt(s) ==
    LET t == Strip(s)
    IN IF t # <<>> /\ Head(t) \in {"-", "+"}
       THEN IF IsDigits(Tail(t))
            THEN <<(IF Head(t) = "-" THEN -1 ELSE 1) * DigitsValue(Tail(t))>>
            ELSE <<>>
       ELSE IF IsDigits(t) THEN <<DigitsValue(t)>> ELSE <<>>

\* dict[k] = v
Put(d, k, v) == [x \in DOMAIN d \cup {k} |-> IF x = k THEN v ELSE d[x]]

EmptyDict == [x \in {} |-> x]

(***************************************************************************)
(* Helpers of generate_outfits.py                                          *)
(***************************************************************************)
NoSex == "None"

\* normalize_name
normalize_name(name) == Strip(name)

\* alt_name_without_npc_suffix: re.sub(r"\s*\(NPC\)\s*$", "", name).strip()
alt_name_without_npc_suffix(name) ==
    LET t == RStrip(name)
    IN IF EndsWith(t, <<"(","N","P","C",")">>) THEN Strip(RStrip(DropLast(t, 5))) ELSE Strip(name)

\* normalize_gender; flag is <<>> (None) or <<text>>
normalize_gender(flag) ==
    IF flag = <<>> \/ flag[1] = <<>> THEN NoSex
    ELSE LET f == Lower(Strip(flag[1]))
         IN IF StartsWith(f, <<"f">>) THEN "female"
            ELSE IF StartsWith(f, <<"m">>) THEN "male"
            ELSE NoSex

\* is_truthy_flag, for a value that is present
is_truthy_flag(value) == Lower(Strip(value)) \in {<<"t","r","u","e">>, <<"y","e","s">>, <<"1">>, <<"y">>}

(***************************************************************************)
(* urllib.parse                                                            *)
(***************************************************************************)
\* urlparse(url).query: what follows the first "?" up to the fragment
UrlQuery(url) ==
    LET nofrag == Split(url, <<"#">>)[1]
        p == SplitOnce(nofrag, <<"?">>)
    IN IF Len(p) = 1 THEN <<>> ELSE p[2]

RECURSIVE QsFold(_, _)
QsFold(pairs, qs) ==
    IF pairs = <<>> THEN qs
    ELSE LET nv == SplitOnce(Head(pairs), <<"=">>)
         IN IF Len(nv) # 2 \/ nv[2] = <<>>
            THEN QsFold(Tail(pairs), qs)          \* keep_blank_values=False drops it
            ELSE QsFold(Tail(pairs),
                        Put(qs, nv[1],
                            IF nv[1] \in DOMAIN qs THEN Append(qs[nv[1]], nv[2])
                            ELSE <<nv[2]>>))

\* parse_qs(query): name -> list of values; a field with no "=" or with an
\* empty value is dropped (keep_blank_values defaults to False)
parse_qs(query) == QsFold(Split(query, <<"&">>), EmptyDict)

\* get_int of parse_outfiter_url
get_int(qs, key) ==
    IF key \notin DOMAIN qs THEN <<>>
    ELSE LET val == qs[key][1]
         IN IF val = <<>> THEN <<>> ELSE PyInt(val)

\* d[k] = v[1] when the optional v is present
PutIf(d, k, v) == IF v = <<>> THEN d ELSE Put(d, k, v[1])

\* addons of parse_outfiter_url
UrlAddons(qs) ==
    (IF <<"a","1">> \in DOMAIN qs THEN 1 ELSE 0) + (IF <<"a","2">> \in DOMAIN qs THEN 2 ELSE 0)

\* sex of parse_outfiter_url
UrlSex(qs) ==
    IF <<"f","m">> \in DOMAIN qs THEN "female"
    ELSE IF <<"f">> \in DOMAIN qs THEN normalize_gender(<<qs[<<"f">>][1]>>)
    ELSE NoSex

parse_outfiter_url(url) ==
    LET qs == parse_qs(UrlQuery(url))
        r1 == PutIf(EmptyDict, "type", get_int(qs, <<"o">>))
        r2 == PutIf(r1, "head", get_int(qs, <<"c","1">>))
        r3 == PutIf(r2, "body", get_int(qs, <<"c","2">>))
        r4 == PutIf(r3, "legs", get_int(qs, <<"c","3">>))
        r5 == PutIf(r4, "feet", get_int(qs, <<"c","4">>))
        r6 == Put(r5, "addons", UrlAddons(qs))
    IN IF UrlSex(qs) # NoSex THEN Put(r6, "sex", UrlSex(qs)) ELSE r6

(***************************************************************************)
(* parse_outfitter_template                                                *)
(***************************************************************************)
StripBrackets(template) ==
    LET t0 == Strip(template)
        t1 == IF StartsWith(t0, <<"{","{">>) THEN DropFirst(t0, 2) ELSE t0
    IN IF EndsWith(t1, <<"}","}">>) THEN DropLast(t1, 2) ELSE t1

\* faulty variant: a segment that is blank after trimming becomes a key too
TemplatePartBlankKey(params, part) ==
    IF Contains(part, <<"=">>)
    THEN LET kv == SplitOnce(part, <<"=">>) IN Put(params, Strip(kv[1]), Strip(kv[2]))
    ELSE Put(params, Strip(part), <<"t","r","u","e">>)

\* one iteration of the loop over parts[1:]
TemplatePart(params, part) ==
    IF Contains(part, <<"=">>)
    THEN LET kv == SplitOnce(part, <<"=">>) IN Put(params, Strip(kv[1]), Strip(kv[2]))
    ELSE IF Strip(part) # <<>> THEN Put(params, Strip(part), <<"t","r","u","e">>)
    ELSE params

RECURSIVE TemplateFold(_, _)
TemplateFold(parts, params) ==
    IF parts = <<>> THEN params
    ELSE TemplateFold(Tail(parts), TemplatePart(params, Head(parts)))

parse_outfitter_template(template) ==
    TemplateFold(Tail(Split(StripBrackets(template), <<"|">>)), EmptyDict)

(***************************************************************************)
(* parse_wikitext_rows                                                     *)
(***************************************************************************)
\* faulty variant: the third cell is not required to open a template
RowOfLineAnyThird(line0) ==
    LET line == Strip(line0)
    IN IF ~StartsWith(line, <<"|"," ">>) THEN <<>>
       ELSE LET parts0 == Split(DropFirst(line, 2), <<"|","|">>)
                parts == [i \in 1..Len(parts0) |-> Strip(parts0[i])]
            IN IF Len(parts) < 3 THEN <<>>
               ELSE <<<<normalize_name(parts[1]), parts[2], parts[3]>>>>

\* one iteration of the loop over the lines: <<>> for continue, <<triple>> for yield
RowOfLine(line0) ==
    LET line == Strip(line0)
    IN IF ~StartsWith(line, <<"|"," ">>) THEN <<>>
       ELSE LET parts0 == Split(DropFirst(line, 2), <<"|","|">>)
                parts == [i \in 1..Len(parts0) |-> Strip(parts0[i])]
            IN IF Len(parts) < 3 THEN <<>>
               ELSE IF ~StartsWith(parts[3], <<"{","{">>) THEN <<>>
               ELSE <<<<normalize_name(parts[1]), parts[2], parts[3]>>>>

RECURSIVE RowsOfLines(_)
RowsOfLines(lines) ==
    IF lines = <<>> THEN <<>> ELSE RowOfLine(Head(lines)) \o RowsOfLines(Tail(lines))

parse_wikitext_rows(text) == RowsOfLines(SplitLines(text))

(***************************************************************************)
(* build_looktype_map                                                      *)
(***************************************************************************)
batch_size == 20

RECURSIVE LeadingDigits(_)
LeadingDigits(s) ==
    IF s # <<>> /\ Head(s) \in Digits THEN <<Head(s)>> \o LeadingDigits(Tail(s)) ELSE <<>>

\* the digits captured when key\s*=\s*([0-9]+) matches at the start of s, else <<>>
IdMatchAt(s, key) ==
    IF ~StartsWith(s, key) THEN <<>>
    ELSE LET a == LStrip(DropFirst(s, Len(key)))
         IN IF a = <<>> \/ Head(a) # "=" THEN <<>> ELSE LeadingDigits(LStrip(Tail(a)))

\* re.search(key\s*=\s*([0-9]+), content): <<int of the first match>>, or <<>>
IdSearch(content, key) ==
    LET hits == {i \in 1..Len(content) : IdMatchAt(DropFirst(content, i - 1), key) # <<>>}
    IN IF hits = {} THEN <<>>
       ELSE LET first == CHOOSE i \in hits : \A j \in hits : i <= j
            IN <<DigitsValue(IdMatchAt(DropFirst(content, first - 1), key))>>

\* the loop body for one (article_id, title, name) of a batch
IndexOutfit(map, outfit, title_to_content) ==
    LET content == IF outfit[2] \in DOMAIN title_to_content
                   THEN title_to_content[outfit[2]] ELSE <<>>
        male_match == IdSearch(content, <<"m","a","l","e","_","i","d">>)
        female_match == IdSearch(content, <<"f","e","m","a","l","e","_","i","d">>)
        m1 == IF male_match # <<>>
              THEN Put(map, male_match[1],
                       [outfit_id |-> outfit[1], outfit_name |-> outfit[3], sex |-> "male"])
              ELSE map
    IN IF female_match # <<>>
       THEN Put(m1, female_match[1],
                [outfit_id |-> outfit[1], outfit_name |-> outfit[3], sex |-> "female"])
       ELSE m1

RECURSIVE IndexBatch(_, _, _)
IndexBatch(map, batch, title_to_content) ==
    IF batch = <<>> THEN map
    ELSE IndexBatch(IndexOutfit(map, Head(batch), title_to_content),
                    Tail(batch), title_to_content)

Min(a, b) == IF a < b THEN a ELSE b

\* outfits[i : i + batch_size], i counted from 0
BatchAt(dbrows, i) == SubSeq(dbrows, i + 1, Min(i + batch_size, Len(dbrows)))

\* resp.raise_for_status() raises for a 4xx or 5xx status
\* faulty variant: a 4xx status passes
RaisesForStatusOnly5xx(status) == status >= 500 /\ status < 600

RaisesForStatus(status) == status >= 400 /\ status < 600

(***************************************************************************)
(* load_outfits_xml_lookup                                                 *)
(* An element is [tag, attrib]; attrib is a dict of attribute texts.       *)
(***************************************************************************)
EmptyOrder == [s \in {"female", "male"} |-> <<>>]

\* faulty variant: the direct index keeps the first element of a lookType
XmlElementFirstWins(acc, el) ==
    LET a == el.attrib
    IN IF el.tag # "outfit" THEN acc
       ELSE IF "name" \notin DOMAIN a \/ a["name"] = <<>> \/ "looktype" \notin DOMAIN a
               \/ "type" \notin DOMAIN a THEN acc
       ELSE IF PyInt(a["looktype"]) = <<>> THEN acc
       ELSE LET sex == IF a["type"] = <<"0">> THEN "female" ELSE "male"
                lt_int == PyInt(a["looktype"])[1]
                info == [outfit_name |-> Strip(a["name"]), sex |-> sex]
            IN [mapping |-> IF lt_int \in DOMAIN acc.mapping THEN acc.mapping
                            ELSE Put(acc.mapping, lt_int, info),
                ordered |-> [acc.ordered EXCEPT ![sex] = Append(@, <<lt_int, info>>)]]

\* the loop body for one child of the root
XmlElement(acc, el) ==
    LET a == el.attrib
    IN IF el.tag # "outfit" THEN acc
       ELSE IF "name" \notin DOMAIN a \/ a["name"] = <<>> \/ "looktype" \notin DOMAIN a
               \/ "type" \notin DOMAIN a THEN acc
       ELSE IF PyInt(a["looktype"]) = <<>> THEN acc
       ELSE LET sex == IF a["type"] = <<"0">> THEN "female" ELSE "male"
                lt_int == PyInt(a["looktype"])[1]
                info == [outfit_name |-> Strip(a["name"]), sex |-> sex]
            IN [mapping |-> Put(acc.mapping, lt_int, info),
                ordered |-> [acc.ordered EXCEPT ![sex] = Append(@, <<lt_int, info>>)]]

RECURSIVE XmlFold(_, _)
XmlFold(els, acc) ==
    IF els = <<>> THEN acc ELSE XmlFold(Tail(els), XmlElement(acc, Head(els)))

\* file is <<>> when the path does not exist, <<children of the root>> otherwise
load_outfits_xml_lookup(file) ==
    IF file = <<>> THEN [mapping |-> EmptyDict, ordered |-> EmptyOrder]
    ELSE XmlFold(file[1], [mapping |-> EmptyDict, ordered |-> EmptyOrder])

(***************************************************************************)
(* The loop body of main()                                                 *)
(***************************************************************************)
\* the href made absolute
AbsoluteHref(href) ==
    IF StartsWith(href, <<"/","/">>) THEN <<"h","t","t","p","s",":">> \o href
    ELSE IF StartsWith(href, <<"/">>) THEN <<"h","t","t","p","s",":","/","/","t","i","b","i","a",".","f","a","n","d","o","m",".","c","o","m">> \o href
    ELSE href

\* fallback lookType from the template when the link has none
TypeFallback(info, params) ==
    IF <<"o","u","t","f","i","t">> \in DOMAIN params /\ params[<<"o","u","t","f","i","t">>] # <<>> /\ "type" \notin DOMAIN info
    THEN PutIf(info, "type", PyInt(params[<<"o","u","t","f","i","t">>]))
    ELSE info

\* a | b on the two addon bits
BitOr(a, b) ==
    (IF a % 2 = 1 \/ b % 2 = 1 THEN 1 ELSE 0)
    + (IF (a \div 2) % 2 = 1 \/ (b \div 2) % 2 = 1 THEN 2 ELSE 0)

\* the template flag key is present and truthy or empty
FlagSet(params, key) ==
    key \in DOMAIN params /\ (is_truthy_flag(params[key]) \/ params[key] = <<>>)

\* faulty variant: a template flag assigns the mask
FuseAddonsAssign(info, params) ==
    LET i0 == IF "addons" \notin DOMAIN info THEN Put(info, "addons", 0) ELSE info
        i1 == IF FlagSet(params, <<"a","d","d","o","n","1">>) THEN Put(i0, "addons", 1) ELSE i0
    IN IF FlagSet(params, <<"a","d","d","o","n","2">>) THEN Put(i1, "addons", 2) ELSE i1

\* addons may be encoded only in the template
FuseAddons(info, params) ==
    LET i0 == IF "addons" \notin DOMAIN info THEN Put(info, "addons", 0) ELSE info
        i1 == IF FlagSet(params, <<"a","d","d","o","n","1">>)
              THEN Put(i0, "addons", BitOr(i0["addons"], 1)) ELSE i0
    IN IF FlagSet(params, <<"a","d","d","o","n","2">>)
       THEN Put(i1, "addons", BitOr(i1["addons"], 2)) ELSE i1

\* faulty variant: a definite template answer replaces the link's
SexFallbackTemplateFirst(info, params) ==
    LET s0 == IF FlagSet(params, <<"f","e","m","a","l","e">>) THEN "female" ELSE NoSex
        s1 == IF s0 # NoSex THEN s0
              ELSE normalize_gender(IF <<"s","e","x">> \in DOMAIN params
                                    THEN <<params[<<"s","e","x">>]>> ELSE <<>>)
    IN IF s1 # NoSex THEN Put(info, "sex", s1) ELSE info

\* sex from the template when the link gave none
SexFallback(info, params) ==
    IF "sex" \in DOMAIN info THEN info
    ELSE LET s0 == IF FlagSet(params, <<"f","e","m","a","l","e">>) THEN "female" ELSE NoSex
             s1 == IF s0 # NoSex THEN s0
                   ELSE normalize_gender(IF <<"s","e","x">> \in DOMAIN params
                                         THEN <<params[<<"s","e","x">>]>> ELSE <<>>)
         IN IF s1 # NoSex THEN Put(info, "sex", s1) ELSE info

\* faulty variant: the position is counted from 1
OrdinalHeuristicOneBased(info, order) ==
    LET looktype == info["type"]
        sex_key == IF "sex" \in DOMAIN info THEN info["sex"] ELSE "female"
        order_list == order[sex_key]
    IN IF 1 <= looktype /\ looktype <= Len(order_list)
       THEN LET mapped == order_list[looktype]
            IN Put(Put(Put(Put(info, "type", mapped[1]), "outfit_id", mapped[1]),
                       "outfit_name", mapped[2].outfit_name), "sex", sex_key)
       ELSE Put(info, "outfit_id", looktype)

\* faulty variant: an out-of-range lookType leaves the descriptor without an id
OrdinalHeuristicNoId(info, order) ==
    LET looktype == info["type"]
        sex_key == IF "sex" \in DOMAIN info THEN info["sex"] ELSE "female"
        order_list == order[sex_key]
    IN IF 0 <= looktype /\ looktype < Len(order_list)
       THEN LET mapped == order_list[looktype + 1]
            IN Put(Put(Put(Put(info, "type", mapped[1]), "outfit_id", mapped[1]),
                       "outfit_name", mapped[2].outfit_name), "sex", sex_key)
       ELSE info

\* legacy heuristic: the lookType as an index in the list of the sex block
OrdinalHeuristic(info, order) ==
    LET looktype == info["type"]
        sex_key == IF "sex" \in DOMAIN info THEN info["sex"] ELSE "female"
        order_list == order[sex_key]
    IN IF 0 <= looktype /\ looktype < Len(order_list)
       THEN LET mapped == order_list[looktype + 1]
            IN Put(Put(Put(Put(info, "type", mapped[1]), "outfit_id", mapped[1]),
                       "outfit_name", mapped[2].outfit_name), "sex", sex_key)
       ELSE Put(info, "outfit_id", looktype)

\* sex copied from an index entry only when the row has none
SexIfUnset(info, sex) == IF "sex" \notin DOMAIN info THEN Put(info, "sex", sex) ELSE info

\* faulty variant: the reference index is asked before the canonical one
ResolveReferenceFirst(info, ltmap, xmllookup, order) ==
    IF "type" \notin DOMAIN info THEN info
    ELSE LET looktype == info["type"]
         IN IF looktype \in DOMAIN xmllookup
            THEN Put(SexIfUnset(Put(info, "outfit_name", xmllookup[looktype].outfit_name),
                                xmllookup[looktype].sex),
                     "outfit_id", looktype)
            ELSE IF looktype \in DOMAIN ltmap
            THEN SexIfUnset(Put(Put(info, "outfit_id", ltmap[looktype].outfit_id),
                                "outfit_name", ltmap[looktype].outfit_name),
                            ltmap[looktype].sex)
            ELSE OrdinalHeuristic(info, order)

\* lookType resolution: canonical index, then reference index, then heuristic
ResolveLookType(info, ltmap, xmllookup, order) ==
    IF "type" \notin DOMAIN info THEN info
    ELSE LET looktype == info["type"]
         IN IF looktype \in DOMAIN ltmap
            THEN SexIfUnset(Put(Put(info, "outfit_id", ltmap[looktype].outfit_id),
                                "outfit_name", ltmap[looktype].outfit_name),
                            ltmap[looktype].sex)
            ELSE IF looktype \in DOMAIN xmllookup
            THEN Put(SexIfUnset(Put(info, "outfit_name", xmllookup[looktype].outfit_name),
                                xmllookup[looktype].sex),
                     "outfit_id", looktype)
            ELSE OrdinalHeuristic(info, order)

\* the descriptor of one row, from the decoder to the resolution
ResolveRow(href, template_str, ltmap, xmllookup, order) ==
    LET params == parse_outfitter_template(template_str)
        i0 == parse_outfiter_url(AbsoluteHref(href))
        i1 == TypeFallback(i0, params)
        i2 == FuseAddons(i1, params)
        i3 == SexFallback(i2, params)
    IN ResolveLookType(i3, ltmap, xmllookup, order)

(***************************************************************************)
(* The output dict, in insertion order: a sequence of <<key, value>>       *)
(***************************************************************************)
Keys(d) == {d[i][1] : i \in 1..Len(d)}

Get(d, k) == d[CHOOSE i \in 1..Len(d) : d[i][1] = k][2]

\* d[k] = v: in place when the key is there, appended otherwise
DictSet(d, k, v) ==
    IF k \in Keys(d) THEN [i \in 1..Len(d) |-> IF d[i][1] = k THEN <<k, v>> ELSE d[i]]
    ELSE Append(d, <<k, v>>)

\* d.setdefault(k, v)
DictSetDefault(d, k, v) == IF k \in Keys(d) THEN d ELSE Append(d, <<k, v>>)

\* faulty variant: the alias key is assigned like the main key
StoreRowAliasOverwrites(d, npc_name, info) ==
    LET d1 == DictSet(d, npc_name, info)
        alt == alt_name_without_npc_suffix(npc_name)
    IN IF alt # <<>> /\ alt # npc_name THEN DictSet(d1, alt, info) ELSE d1

\* main key as displayed, alternate key without the " (NPC)" suffix
StoreRow(d, npc_name, info) ==
    LET d1 == DictSet(d, npc_name, info)
        alt == alt_name_without_npc_suffix(npc_name)
    IN IF alt # <<>> /\ alt # npc_name THEN DictSetDefault(d1, alt, info) ELSE d1

\* code point order of the characters that occur in keys
CodePoints == <<" ","!","#","$","%","&","'","(",")","*","+",",","-",".","/","0","1","2","3","4","5","6","7","8","9",":",";","<","=",">","?","A","B","C","D","E","F","G","H","I","J","K","L","M","N","O","P","Q","R","S","T","U","V","W","X","Y","Z","[","]","^","_","a","b","c","d","e","f","g","h","i","j","k","l","m","n","o","p","q","r","s","t","u","v","w","x","y","z","{","|","}","~">>

Ord(c) == CHOOSE i \in 1..Len(CodePoints) : CodePoints[i] = c

\* a < b for str
RECURSIVE StrLess(_, _)
StrLess(a, b) ==
    IF b = <<>> THEN FALSE
    ELSE IF a = <<>> THEN TRUE
    ELSE IF Head(a) = Head(b) THEN StrLess(Tail(a), Tail(b))
    ELSE Ord(Head(a)) < Ord(Head(b))

\* item placed after every item whose lowered key is not greater: a stable sort
RECURSIVE InsertSorted(_, _)
InsertSorted(sorted, item) ==
    IF sorted = <<>> THEN <<item>>
    ELSE IF StrLess(Lower(item[1]), Lower(Head(sorted)[1]))
         THEN <<item>> \o sorted
         ELSE <<Head(sorted)>> \o InsertSorted(Tail(sorted), item)

RECURSIVE SortFold(_, _)
SortFold(items, sorted) ==
    IF items = <<>> THEN sorted
    ELSE SortFold(Tail(items), InsertSorted(sorted, Head(items)))

\* dict(sorted(outfits.items(), key=lambda kv: kv[0].lower()))
sorted_outfits(d) == SortFold(d, <<>>)

(***************************************************************************)
(* Bounds and the inputs drawn from them                                   *)
(***************************************************************************)
MaxRows == 2        \* lines of the fetched wiki page
MaxOutfits == 21    \* rows of the outfit table: one more than a batch
MaxFields == 2      \* query fields of a decoded link
MaxSegs == 2        \* segments after the template name
MaxLines == 2       \* lines of an extracted text block
MaxElems == 2       \* children of the root of outfits.xml

\* all sequences over S of length at most n
SeqsUpTo(S, n) == UNION {[1..k -> S] : k \in 0..n}

Statuses == {200, 404, 503}

\* the outfit table: (article_id, title, name)
DbRows(n) ==
    [i \in 1..n |-> <<1000 + i, <<"T", i>>, IF i = 1 THEN <<"C","i","t","i","z","e","n">> ELSE <<"M","a","g","e">>>>]

DbChoices == {<<>>} \cup {<<DbRows(n)>> : n \in {0, 1, MaxOutfits}}

Contents == {<<>>, <<"|"," ","m","a","l","e","_","i","d"," ","="," ","1","0","0"," ","|">>, <<"|","f","e","m","a","l","e","_","i","d","=","1","|","m","a","l","e","_","i","d","=","1","0","0">>}

\* the pages of one batched request: the first title of the batch answers
BatchResponses(batch) ==
    {EmptyDict} \cup {Put(EmptyDict, batch[1][2], c) : c \in Contents}

Outfit(looktype, name, type) ==
    [tag |-> "outfit", attrib |-> [looktype |-> looktype, name |-> name, type |-> type]]

\* female [(100, A), (200, B)], male [(300, C)]
XmlExample ==
    <<Outfit(<<"1","0","0">>, <<"A">>, <<"0">>), Outfit(<<"2","0","0">>, <<"B">>, <<"0">>), Outfit(<<"3","0","0">>, <<"C">>, <<"1">>)>>

XmlFiles ==
    {<<>>, <<XmlExample>>,
     <<<<Outfit(<<"1">>, <<" ","D"," ">>, <<"1">>), Outfit(<<"1">>, <<"E">>, <<"0">>),
         [tag |-> "outfit", attrib |-> [looktype |-> <<"5">>, name |-> <<"F">>]]>>>>}

\* an outfits.json left by an earlier run
OldFile == <<<<<<"Z","e","d">>, [addons |-> 0]>>>>

PageLines ==
    {<<"|"," ","A","l"," ","(","N","P","C",")"," ","|","|"," ","/","/","x","/","O","?","o","=","1","0","0","&","a","1","=","1"," ","|","|"," ","{","{","O","}","}">>,
     <<"|"," ","A","l"," ","(","N","P","C",")"," ","|","|"," ","/","O","?","o","=","1","&","f","=","m"," ","|","|"," ","{","{","O","|","a","d","d","o","n","2","}","}">>,
     <<"|"," ","A","l"," ","|","|"," ","h","t","t","p","s",":","/","/","x","/","O","?","c","1","=","1","9"," ","|","|"," ","{","{","O","|","o","u","t","f","i","t","=","3","0","0","}","}">>,
     <<"|"," ","A","l","(","N","P","C",")"," ","|","|"," ","h","t","t","p","s",":","/","/","x","/","O","?","o","=","7"," ","|","|"," ","{","{","O","|","f","e","m","a","l","e","}","}">>,
     <<"|"," ","B","o"," ","|","|"," ","|","|"," ","{","{","O","}","}">>,
     <<"|","-">>}

WikiTexts == {Join(ls, <<"\n">>) : ls \in SeqsUpTo(PageLines, MaxRows)}

\* rows of the resolution check
Hrefs ==
    {<<"h","t","t","p","s",":","/","/","x","/","O","u","t","f","i","t","e","r","?","o","=","1","3","0","&","c","1","=","1","9","&","c","2","=","8","6","&","a","1","=","1">>,
     <<"/","/","x","/","O","?","o","=","1","&","f","m","=","1">>,
     <<"/","O","?","o","=","1","&","f","=","m","&","a","2","=","1">>,
     <<"h","t","t","p","s",":","/","/","x","/","O","?","o","=","1","0","0">>,
     <<"h","t","t","p","s",":","/","/","x","/","O","?","o","=","1","0","0","&","f","=","m","a","l","e","&","a","1","=","1","&","a","2","=","1">>,
     <<"h","t","t","p","s",":","/","/","x","/","O","?","a","1">>,
     <<"h","t","t","p","s",":","/","/","x","/","O","?","o","=","0">>,
     <<"h","t","t","p","s",":","/","/","x","/","O","?","o","=","2","&","f","m">>,
     <<"h","t","t","p","s",":","/","/","x","/","O","?","o","=","x","&","c","3","=","5","&","c","4","=","6">>,
     <<"h","t","t","p","s",":","/","/","x","/","O","?","o","=","3","0","0","&","f","=","f">>,
     <<"h","t","t","p","s",":","/","/","x","/","O","?","o","=","-","1">>,
     <<>>}

Templates ==
    {<<"{","{","O","}","}">>,
     <<"{","{","O","|","o","u","t","f","i","t","=","2","6","6","}","}">>,
     <<"{","{","O","|","o","u","t","f","i","t","=","1","|","a","d","d","o","n","1","|","s","e","x","=","f","}","}">>,
     <<"{","{","O","|","a","d","d","o","n","1","=","n","o","|","a","d","d","o","n","2","=","}","}">>,
     <<"{","{","O","|","f","e","m","a","l","e","}","}">>,
     <<"{","{","O","|","f","e","m","a","l","e","=","n","o","|","s","e","x","=","m","a","l","e","}","}">>,
     <<"{","{","O","|","o","u","t","f","i","t","=","a","b","c","|","a","d","d","o","n","2","=","Y","e","s","}","}">>,
     <<"{","{","O","|","o","u","t","f","i","t","=","2","|","s","e","x","=","m","}","}">>}

RowInputs == {<<<<"A","l"," ","(","N","P","C",")">>, h, t>> : h \in Hrefs, t \in Templates}

\* canonical indexes the builder produces from a two-row table
LookTypeMaps ==
    {IndexBatch(EmptyDict, DbRows(2), r) : r \in BatchResponses(DbRows(2))}

\* inputs of the pure functions
UrlFields ==
    {<<"f","m">>, <<"f","m","=">>, <<"f","m","=","1">>, <<"f","=","f">>, <<"f","=","m">>, <<"f","="," ","M","a","l","e">>, <<"f","=","x">>, <<"f">>, <<"f","=">>,
     <<"o","=","1","3","0">>, <<"a","1">>, <<"a","2","=","1">>, <<"c","1","=","1","9">>, <<"o","=","1","x">>}

Urls == {<<"h","t","t","p","s",":","/","/","x","/","O","?">> \o Join(fs, <<"&">>) : fs \in SeqsUpTo(UrlFields, MaxFields)}

TemplateSegs == {<<"a","=","1">>, <<"a","=","2">>, <<"a">>, <<" ","b"," ">>, <<>>, <<" ">>, <<"a","=","b","=","c">>, <<"=","x">>}

TemplateExample == <<"{","{","O","u","t","f","i","t","t","e","r","|","o","u","t","f","i","t","=","1","3","0","|","a","d","d","o","n","1","|","s","e","x","=","f","}","}">>

TemplateTexts ==
    {TemplateExample} \cup
    {pre \o Join(<<<<"O">>>> \o segs, <<"|">>) \o suf :
        pre \in {<<"{","{">>, <<" ","{","{">>, <<>>}, suf \in {<<"}","}">>, <<>>},
        segs \in SeqsUpTo(TemplateSegs, MaxSegs)}

BlockLines ==
    {<<"|"," ","A"," ","|","|"," ","l"," ","|","|"," ","{","{","t","}","}">>,
     <<"|"," ","B","|","|","m","|","|","{","{","u","|","x","}","}","|","|","e","x","t","r","a">>,
     <<" "," ","|"," ","C"," ","|","|"," ","n"," ","|","|"," ","{","{","v","}","}"," "," ">>,
     <<"|","-">>,
     <<>>,
     <<"<","!","-","-"," ","c"," ","-","-",">">>,
     <<"|"," ","D"," ","|","|"," ","n">>,
     <<"|"," ","E"," ","|","|"," ","n"," ","|","|"," ","t">>,
     <<"|","F"," ","|","|"," ","n"," ","|","|"," ","{","{","t","}","}">>,
     <<"|"," ","|","|"," ","|","|"," ","{","{">>}

\* 3 well-formed rows and 2 non-row lines
BlockExample ==
    <<"<","!","-","-"," ","c"," ","-","-",">","\n","|"," ","A"," ","|","|"," ","l"," ","|","|"," ","{","{","t","}","}","\n","|","-","\n","|"," ","B","|","|","m","|","|","{","{","u","|","x","}","}","|","|","e","x","t","r","a","\n"," "," ","|"," ","C"," ","|","|"," ","n"," ","|","|"," ","{","{","v","}","}"," "," ","\n">>

TextBlocks ==
    {BlockExample} \cup {Join(ls, <<"\n">>) : ls \in SeqsUpTo(BlockLines, MaxLines)}

XmlElems ==
    {Outfit(<<"1","0","0">>, <<"A">>, <<"0">>),
     Outfit(<<"2","0","0">>, <<"B">>, <<"0">>),
     Outfit(<<"3","0","0">>, <<"C">>, <<"1">>),
     Outfit(<<"1","0","0">>, <<" ","D"," ">>, <<"2">>),
     Outfit(<<" ","-","7"," ">>, <<"E">>, <<>>),
     Outfit(<<"x","1">>, <<"G">>, <<"0">>),
     Outfit(<<"7">>, <<>>, <<"0">>),
     [tag |-> "outfit", attrib |-> [looktype |-> <<"1","0","0">>, name |-> <<"H">>]],
     [tag |-> "outfit", attrib |-> [name |-> <<"I">>, type |-> <<"0">>]],
     [tag |-> "outfit", attrib |-> [looktype |-> <<"9">>, type |-> <<"1">>]],
     [tag |-> "mount", attrib |-> [looktype |-> <<"9">>, name |-> <<"J">>, type |-> <<"1">>]]}

XmlInputs == {<<>>} \cup {<<els>> : els \in SeqsUpTo(XmlElems, MaxElems)}

(***************************************************************************)
(* main()                                                                  *)
(***************************************************************************)
NoRow ==
    /\ outfit_info = EmptyDict
    /\ template_params = EmptyDict
    /\ rpc = "idle"

NoCall ==
    /\ fn = "none"
    /\ arg = <<>>
    /\ res = <<>>

Init ==
    /\ pc = "fetch_page"
    /\ wikitext = <<>>
    /\ rows = <<>>
    /\ processed = <<>>
    /\ db \in DbChoices
    /\ batch_i = 0
    /\ looktype_map = EmptyDict
    /\ xml_file \in XmlFiles
    /\ outfits_xml_lookup = EmptyDict
    /\ outfits_xml_order = EmptyOrder
    /\ outfits = <<>>
    /\ out_file \in {<<>>, <<OldFile>>}
    /\ log = <<>>
    /\ NoRow
    /\ NoCall

\* wikitext = fetch_page_wikitext(NPC_OUTFITTER_PAGE)
FetchPage ==
    /\ pc = "fetch_page"
    /\ \E status \in Statuses, text \in WikiTexts :
          IF RaisesForStatus(status)
          THEN /\ pc' = "aborted"
               /\ log' = Append(log, <<"fetch_page", status>>)
               /\ UNCHANGED wikitext
          ELSE /\ pc' = "build_map"
               /\ log' = Append(log, <<"fetch_page", status>>)
               /\ wikitext' = text
    /\ UNCHANGED <<rows, processed, db, batch_i, looktype_map, xml_file,
                   outfits_xml_lookup, outfits_xml_order, outfit_info, template_params,
                   rpc, outfits, out_file, fn, arg, res>>

\* build_looktype_map has batches left when the table exists and i < len(outfits)
BatchesLeft == db # <<>> /\ batch_i < Len(db[1])

\* one iteration of the batch loop of build_looktype_map
FetchBatch ==
    /\ pc = "build_map"
    /\ BatchesLeft
    /\ \E status \in Statuses, title_to_content \in BatchResponses(BatchAt(db[1], batch_i)) :
          IF RaisesForStatus(status)
          THEN /\ pc' = "aborted"
               /\ log' = Append(log, <<"fetch_batch", status>>)
               /\ UNCHANGED <<looktype_map, batch_i>>
          ELSE /\ looktype_map' =
                      IndexBatch(looktype_map, BatchAt(db[1], batch_i), title_to_content)
               /\ batch_i' = batch_i + batch_size
               /\ log' = Append(log, <<"fetch_batch", status>>)
               /\ UNCHANGED pc
    /\ UNCHANGED <<wikitext, rows, processed, db, xml_file, outfits_xml_lookup,
                   outfits_xml_order, outfit_info, template_params, rpc, outfits,
                   out_file, fn, arg, res>>

\* build_looktype_map returns; load_outfits_xml_lookup; the row generator is made
LoadXml ==
    /\ pc = "build_map"
    /\ ~BatchesLeft
    /\ outfits_xml_lookup' = load_outfits_xml_lookup(xml_file).mapping
    /\ outfits_xml_order' = load_outfits_xml_lookup(xml_file).ordered
    /\ rows' = parse_wikitext_rows(wikitext)
    /\ outfits' = <<>>
    /\ pc' = "rows"
    /\ log' = Append(log, <<"load_xml", 0>>)
    /\ UNCHANGED <<wikitext, processed, db, batch_i, looktype_map, xml_file, outfit_info,
                   template_params, rpc, out_file, fn, arg, res>>

\* one iteration of the loop over the rows
ProcessRow ==
    /\ pc = "rows"
    /\ rpc = "idle"
    /\ rows # <<>>
    /\ LET npc_name == Head(rows)[1]
           href == Head(rows)[2]
           template_str == Head(rows)[3]
       IN IF href = <<>>
          THEN UNCHANGED <<outfit_info, template_params, outfits>>
          ELSE /\ outfit_info' = ResolveRow(href, template_str, looktype_map,
                                            outfits_xml_lookup, outfits_xml_order)
               /\ template_params' = parse_outfitter_template(template_str)
               /\ outfits' = StoreRow(outfits, npc_name, outfit_info')
    /\ rows' = Tail(rows)
    /\ processed' = Append(processed, Head(rows))
    /\ log' = Append(log, <<"row", 0>>)
    /\ UNCHANGED <<pc, wikitext, db, batch_i, looktype_map, xml_file, outfits_xml_lookup,
                   outfits_xml_order, rpc, out_file, fn, arg, res>>

\* the sort and the dump to outfits.json
WriteOutput ==
    /\ pc = "rows"
    /\ rpc = "idle"
    /\ rows = <<>>
    /\ out_file' = <<sorted_outfits(outfits)>>
    /\ pc' = "done"
    /\ log' = Append(log, <<"open_output", 0>>)
    /\ UNCHANGED <<wikitext, rows, processed, db, batch_i, looktype_map, xml_file,
                   outfits_xml_lookup, outfits_xml_order, outfit_info, template_params,
                   rpc, outfits, fn, arg, res>>

Next == FetchPage \/ FetchBatch \/ LoadXml \/ ProcessRow \/ WriteOutput

Spec == Init /\ [][Next]_vars

(***************************************************************************)
(* The loop body, one statement group at a time, for one row               *)
(***************************************************************************)
InitRow ==
    /\ pc = "rows"
    /\ wikitext = <<>>
    /\ rows \in {<<r>> : r \in RowInputs}
    /\ processed = <<>>
    /\ db = <<>>
    /\ batch_i = 0
    /\ looktype_map \in LookTypeMaps
    /\ xml_file \in XmlFiles
    /\ outfits_xml_lookup = load_outfits_xml_lookup(xml_file).mapping
    /\ outfits_xml_order = load_outfits_xml_lookup(xml_file).ordered
    /\ outfits = <<>>
    /\ out_file = <<>>
    /\ log = <<>>
    /\ outfit_info = EmptyDict
    /\ template_params = EmptyDict
    /\ rpc = "start"
    /\ NoCall

RowFrame ==
    UNCHANGED <<pc, wikitext, db, batch_i, looktype_map, xml_file, outfits_xml_lookup,
                outfits_xml_order, out_file, log, fn, arg, res>>

\* if not href: continue
RowSkip ==
    /\ rpc = "start"
    /\ Head(rows)[2] = <<>>
    /\ rpc' = "done"
    /\ processed' = Append(processed, Head(rows))
    /\ rows' = Tail(rows)
    /\ UNCHANGED <<outfit_info, template_params, outfits>>
    /\ RowFrame

\* outfit_info = parse_outfiter_url(href); template_params = parse_outfitter_template(...)
RowDecode ==
    /\ rpc = "start"
    /\ Head(rows)[2] # <<>>
    /\ outfit_info' = parse_outfiter_url(AbsoluteHref(Head(rows)[2]))
    /\ template_params' = parse_outfitter_template(Head(rows)[3])
    /\ rpc' = "type"
    /\ UNCHANGED <<rows, processed, outfits>>
    /\ RowFrame

RowTypeFallback ==
    /\ rpc = "type"
    /\ outfit_info' = TypeFallback(outfit_info, template_params)
    /\ rpc' = "addons"
    /\ UNCHANGED <<rows, processed, template_params, outfits>>
    /\ RowFrame

RowAddons ==
    /\ rpc = "addons"
    /\ outfit_info' = FuseAddons(outfit_info, template_params)
    /\ rpc' = "sex"
    /\ UNCHANGED <<rows, processed, template_params, outfits>>
    /\ RowFrame

RowSex ==
    /\ rpc = "sex"
    /\ outfit_info' = SexFallback(outfit_info, template_params)
    /\ rpc' = "resolve"
    /\ UNCHANGED <<rows, processed, template_params, outfits>>
    /\ RowFrame

RowResolve ==
    /\ rpc = "resolve"
    /\ outfit_info' = ResolveLookType(outfit_info, looktype_map, outfits_xml_lookup,
                                      outfits_xml_order)
    /\ rpc' = "store"
    /\ UNCHANGED <<rows, processed, template_params, outfits>>
    /\ RowFrame

RowStore ==
    /\ rpc = "store"
    /\ outfits' = StoreRow(outfits, Head(rows)[1], outfit_info)
    /\ processed' = Append(processed, Head(rows))
    /\ rows' = Tail(rows)
    /\ rpc' = "done"
    /\ UNCHANGED <<outfit_info, template_params>>
    /\ RowFrame

NextRow ==
    RowSkip \/ RowDecode \/ RowTypeFallback \/ RowAddons \/ RowSex \/ RowResolve \/ RowStore

SpecRow == InitRow /\ [][NextRow]_vars

(***************************************************************************)
(* The parsers and the loader, each applied to one input                   *)
(***************************************************************************)
InitCall ==
    /\ pc = "call"
    /\ wikitext = <<>>
    /\ rows = <<>>
    /\ processed = <<>>
    /\ db = <<>>
    /\ batch_i = 0
    /\ looktype_map = EmptyDict
    /\ xml_file = <<>>
    /\ outfits_xml_lookup = EmptyDict
    /\ outfits_xml_order = EmptyOrder
    /\ outfits = <<>>
    /\ out_file = <<>>
    /\ log = <<>>
    /\ NoRow
    /\ res = <<>>
    /\ \/ fn = "parse_outfiter_url" /\ arg \in Urls
       \/ fn = "parse_outfitter_template" /\ arg \in TemplateTexts
       \/ fn = "parse_wikitext_rows" /\ arg \in TextBlocks
       \/ fn = "load_outfits_xml_lookup" /\ arg \in XmlInputs

CallFrame ==
    /\ pc = "call"
    /\ pc' = "return"
    /\ UNCHANGED <<wikitext, rows, processed, db, batch_i, looktype_map, xml_file,
                   outfits_xml_lookup, outfits_xml_order, outfit_info, template_params,
                   rpc, outfits, out_file, log, fn, arg>>

CallUrl ==
    /\ fn = "parse_outfiter_url"
    /\ res' = parse_outfiter_url(arg)
    /\ CallFrame

CallTemplate ==
    /\ fn = "parse_outfitter_template"
    /\ res' = parse_outfitter_template(arg)
    /\ CallFrame

CallRows ==
    /\ fn = "parse_wikitext_rows"
    /\ res' = parse_wikitext_rows(arg)
    /\ CallFrame

CallXml ==
    /\ fn = "load_outfits_xml_lookup"
    /\ res' = load_outfits_xml_lookup(arg)
    /\ CallFrame

NextCall == CallUrl \/ CallTemplate \/ CallRows \/ CallXml

SpecCall == InitCall /\ [][NextCall]_vars

(***************************************************************************)
(* Properties of the resolution step                                       *)
(***************************************************************************)
\* C1: in the resolution step, a lookType that is a key of the canonical index
\* gets the canonical entry's name and catalogue id whatever the reference
\* catalogue holds for it; the reference direct index decides only when the
\* canonical index has no entry; and with an entry in either index the lookType
\* is not remapped by the ordinal heuristic.
C1_IndexPrecedence ==
    /\ [](rpc = "done" /\ outfits # <<>> => Get(outfits, processed[1][1]) = outfit_info)
    /\ [][(rpc = "resolve" /\ "type" \in DOMAIN outfit_info) =>
        LET k == outfit_info["type"]
            out == outfit_info'
        IN /\ k \in DOMAIN looktype_map =>
                /\ out["outfit_name"] = looktype_map[k].outfit_name
                /\ out["outfit_id"] = looktype_map[k].outfit_id
                /\ out["type"] = k
           /\ (k \notin DOMAIN looktype_map /\ k \in DOMAIN outfits_xml_lookup) =>
                /\ out["outfit_name"] = outfits_xml_lookup[k].outfit_name
                /\ out["outfit_id"] = k
                /\ out["type"] = k
           /\ out["type"] # k =>
                (k \notin DOMAIN looktype_map /\ k \notin DOMAIN outfits_xml_lookup)
        ]_vars

\* a row whose lookType is in both indexes under different names was resolved
C1_Witness ==
    /\ rpc = "store"
    /\ "type" \in DOMAIN outfit_info
    /\ outfit_info["type"] \in DOMAIN looktype_map \cap DOMAIN outfits_xml_lookup
    /\ looktype_map[outfit_info["type"]].outfit_name
         # outfits_xml_lookup[outfit_info["type"]].outfit_name
    /\ outfit_info["outfit_name"] = looktype_map[outfit_info["type"]].outfit_name

\* the exact display names of the rows stored so far
StoredNames == {processed[i][1] : i \in {j \in 1..Len(processed) : processed[j][2] # <<>>}}

\* C2: an alias resolves to the same descriptor as the exact name it was
\* derived from: with an entry under exact name N and one under its alias A
\* (A differs from N, no row had A as its exact name), the descriptor under A
\* equals the descriptor under N, also when N occurs in more than one row.
C2_AliasSameAsExact ==
    \A n \in StoredNames :
        LET a == alt_name_without_npc_suffix(n)
        IN (a # <<>> /\ a # n /\ a \notin StoredNames /\ a \in Keys(outfits)) =>
               Get(outfits, a) = Get(outfits, n)

\* C3: storing under an alias never replaces an entry already under that key,
\* whoever put it there; storing under the exact display name always replaces
\* what is under that key; no other key changes.
C3_AliasFirstExactLast ==
    [][(pc = "rows" /\ rpc = "idle" /\ rows # <<>> /\ rows' # rows /\ Head(rows)[2] # <<>>) =>
        LET n == Head(rows)[1]
            a == alt_name_without_npc_suffix(n)
        IN /\ n \in Keys(outfits')
           /\ Get(outfits', n) = outfit_info'
           /\ (a # <<>> /\ a # n) =>
                /\ a \in Keys(outfits')
                /\ Get(outfits', a) =
                      IF a \in Keys(outfits) THEN Get(outfits, a) ELSE outfit_info'
           /\ \A k \in Keys(outfits) \ {n, a} : Get(outfits', k) = Get(outfits, k)
           /\ Keys(outfits') \subseteq Keys(outfits) \cup {n, a}
      ]_vars

\* two rows with the same alias were stored and the alias kept the first one
C3_Witness ==
    /\ Len(processed) = 2
    /\ processed[1][1] = <<"A","l"," ","(","N","P","C",")">>
    /\ processed[2][1] = <<"A","l","(","N","P","C",")">>
    /\ Get(outfits, <<"A","l">>) = Get(outfits, <<"A","l"," ","(","N","P","C",")">>)
    /\ Get(outfits, <<"A","l">>) # Get(outfits, <<"A","l","(","N","P","C",")">>)

\* the addon bits set in a mask
BitsOf(n) == {b \in {1, 2} : (n \div b) % 2 = 1}

\* C4: every stored descriptor has an addon mask in 0..3, and through the
\* fusion steps of a row the mask only gains bits: every bit of the decoder's
\* output is still set in the stored descriptor, whatever the template says.
C4_AddonMask ==
    /\ [](rpc \in {"type", "addons", "sex", "resolve", "store"} =>
            "addons" \in DOMAIN outfit_info /\ outfit_info["addons"] \in 0..3)
    /\ [](\A i \in 1..Len(outfits) :
            "addons" \in DOMAIN outfits[i][2] /\ outfits[i][2]["addons"] \in 0..3)
    /\ [](rpc = "done" /\ processed[1][1] \in Keys(outfits) =>
            BitsOf(parse_outfiter_url(AbsoluteHref(processed[1][2]))["addons"])
               \subseteq BitsOf(Get(outfits, processed[1][1])["addons"]))
    /\ [][(rpc \in {"type", "addons", "sex", "resolve"}) =>
            BitsOf(outfit_info["addons"]) \subseteq BitsOf(outfit_info'["addons"])]_vars

\* a link with addon 2 and a template with addon1 were fused into mask 3
C4_Witness ==
    /\ rpc = "done"
    /\ outfits # <<>>
    /\ parse_outfiter_url(AbsoluteHref(processed[1][2]))["addons"] = 2
    /\ <<"a","d","d","o","n","1">> \in DOMAIN template_params
    /\ Get(outfits, processed[1][1])["addons"] = 3

\* the outfit elements of a catalogue file, in file order
OutfitElements(file) ==
    LET isOutfit(el) == el.tag = "outfit"
    IN IF file = <<>> THEN <<>> ELSE SelectSeq(file[1], isOutfit)

HasNameAndLookType(el) ==
    /\ "name" \in DOMAIN el.attrib
    /\ el.attrib["name"] # <<>>
    /\ "looktype" \in DOMAIN el.attrib
    /\ PyInt(el.attrib["looktype"]) # <<>>

ElGender(el) ==
    IF "type" \in DOMAIN el.attrib /\ el.attrib["type"] = <<"0">> THEN "female" ELSE "male"

ElEntry(el) ==
    <<PyInt(el.attrib["looktype"])[1],
      [outfit_name |-> Strip(el.attrib["name"]), sex |-> ElGender(el)]>>

\* the result of the loader when exactly the elements of kept are indexed
LoaderResult(kept) ==
    LET female(el) == ElGender(el) = "female"
        male(el) == ElGender(el) = "male"
        entries(els) == [i \in 1..Len(els) |-> ElEntry(els[i])]
        last(lt) == CHOOSE i \in 1..Len(kept) :
                       /\ ElEntry(kept[i])[1] = lt
                       /\ \A j \in 1..Len(kept) : ElEntry(kept[j])[1] = lt => j <= i
    IN [mapping |-> [lt \in {ElEntry(kept[i])[1] : i \in 1..Len(kept)} |->
                        ElEntry(kept[last(lt)])[2]],
        ordered |-> [s \in {"female", "male"} |->
                        IF s = "female" THEN entries(SelectSeq(kept, female))
                        ELSE entries(SelectSeq(kept, male))]]

\* an element the loader indexes
IsIndexed(el) == HasNameAndLookType(el) /\ "type" \in DOMAIN el.attrib

\* the list of a gender: its indexed elements in file order
FileOrder(file, sex) == LoaderResult(SelectSeq(OutfitElements(file), IsIndexed)).ordered[sex]

\* C5: a lookType k in neither index is a zero-based position in the reference
\* list of the row's known gender, the female list when the gender is unknown;
\* in range, lookType and catalogue id become the lookType of the k-th entry,
\* the name becomes its name and the gender the list's gender.  With female
\* list [(100,A),(200,B)], male list [(300,C)], lookType 1 and gender female
\* the result is lookType 200, name B.
C5_OrdinalHeuristic ==
    /\ [][(/\ rpc = "resolve"
           /\ "type" \in DOMAIN outfit_info
           /\ outfit_info["type"] \notin DOMAIN looktype_map
           /\ outfit_info["type"] \notin DOMAIN outfits_xml_lookup) =>
          LET k == outfit_info["type"]
              g == IF "sex" \in DOMAIN outfit_info THEN outfit_info["sex"] ELSE "female"
              list == FileOrder(xml_file, g)
          IN (0 <= k /\ k < Len(list)) =>
                /\ outfit_info'["type"] = list[k + 1][1]
                /\ outfit_info'["outfit_id"] = list[k + 1][1]
                /\ outfit_info'["outfit_name"] = list[k + 1][2].outfit_name
                /\ outfit_info'["sex"] = g
         ]_vars
    /\ []((/\ rpc = "store"
           /\ xml_file = <<XmlExample>>
           /\ looktype_map = EmptyDict
           /\ Head(rows)[2] = <<"/","/","x","/","O","?","o","=","1","&","f","m","=","1">>
           /\ Head(rows)[3] = <<"{","{","O","}","}">>) =>
           /\ FileOrder(xml_file, "female") =
                 <<<<100, [outfit_name |-> <<"A">>, sex |-> "female"]>>,
                   <<200, [outfit_name |-> <<"B">>, sex |-> "female"]>>>>
           /\ FileOrder(xml_file, "male") = <<<<300, [outfit_name |-> <<"C">>, sex |-> "male"]>>>>
           /\ outfit_info["type"] = 200
           /\ outfit_info["outfit_id"] = 200
           /\ outfit_info["outfit_name"] = <<"B">>
           /\ outfit_info["sex"] = "female")

\* the example: lookType 1, gender female, resolved by position to (200, B)
C5_Witness ==
    /\ rpc = "done"
    /\ xml_file = <<XmlExample>>
    /\ looktype_map = EmptyDict
    /\ processed[1][2] = <<"/","/","x","/","O","?","o","=","1","&","f","m","=","1">>
    /\ Get(outfits, processed[1][1])["type"] = 200
    /\ Get(outfits, processed[1][1])["outfit_name"] = <<"B">>
    /\ Get(outfits, processed[1][1])["sex"] = "female"

(***************************************************************************)
(* Properties of the parsers, the loader and the run                       *)
(***************************************************************************)
Returned(f) == fn = f /\ pc = "return"

\* the fields of the query of a link, as written
QueryFields(url) == Split(UrlQuery(url), <<"&">>)

\* the link's query names the parameter, with or without a value
HasParam(url, name) ==
    \E i \in 1..Len(QueryFields(url)) : SplitOnce(QueryFields(url)[i], <<"=">>)[1] = name

\* the values given to the parameter, in order, a missing value being empty
ParamValues(url, name) ==
    LET named(field) == SplitOnce(field, <<"=">>)[1] = name
        given == SelectSeq(QueryFields(url), named)
    IN [i \in 1..Len(given) |->
          IF Len(SplitOnce(given[i], <<"=">>)) = 2 THEN SplitOnce(given[i], <<"=">>)[2] ELSE <<>>]

\* the first non-empty value given to the parameter, empty when there is none
ParamValue(url, name) ==
    LET nonempty(v) == v # <<>>
        vs == SelectSeq(ParamValues(url, name), nonempty)
    IN IF vs = <<>> THEN <<>> ELSE vs[1]

\* C6: with the parameter fm in the query, whatever its value, also empty or
\* missing, the decoded gender is female; otherwise, with f, it is female when
\* f's value starts with f, male when it starts with m (case-insensitive,
\* trimmed) and absent for any other value; with neither it is absent.
C6_DecoderGender ==
    Returned("parse_outfiter_url") =>
        LET v == Lower(Strip(ParamValue(arg, <<"f">>)))
            expected == IF HasParam(arg, <<"f","m">>) THEN "female"
                        ELSE IF ~HasParam(arg, <<"f">>) THEN NoSex
                        ELSE IF v # <<>> /\ v[1] = "f" THEN "female"
                        ELSE IF v # <<>> /\ v[1] = "m" THEN "male"
                        ELSE NoSex
        IN IF expected = NoSex THEN "sex" \notin DOMAIN res
           ELSE "sex" \in DOMAIN res /\ res["sex"] = expected

\* retrieval succeeded
Success(status) == status >= 200 /\ status < 400

\* the places of an operation in the log
LogAt(op) == {i \in 1..Len(log) : log[i][1] = op}

\* the batched fetches build_looktype_map makes for the table
BatchCount == IF db = <<>> THEN 0 ELSE (Len(db[1]) + batch_size - 1) \div batch_size

\* every retrieval and the catalogue load are done, all with success
IndexesBuiltBefore(i) ==
    /\ \E p \in LogAt("fetch_page") : p < i
    /\ Cardinality({b \in LogAt("fetch_batch") : b < i}) = BatchCount
    /\ \E x \in LogAt("load_xml") : x < i
    /\ \A j \in 1..(i - 1) :
          log[j][1] \in {"fetch_page", "fetch_batch"} => Success(log[j][2])

\* C7: the output file is opened only after the page fetch and every batched
\* detail fetch returned success and the reference catalogue was loaded; when
\* a retrieval fails the run ends with the output file untouched; and no row
\* is resolved before all index building has completed.
C7_OutputAfterRetrieval ==
    /\ \A i \in LogAt("open_output") : IndexesBuiltBefore(i)
    /\ \A i \in LogAt("row") : IndexesBuiltBefore(i)
    /\ (\E j \in 1..Len(log) :
           log[j][1] \in {"fetch_page", "fetch_batch"} /\ ~Success(log[j][2])) =>
          /\ pc = "aborted"
          /\ LogAt("open_output") = {}
          /\ LogAt("row") = {}
    /\ LogAt("open_output") = {} => out_file \in {<<>>, <<OldFile>>}
    /\ pc = "done" => LogAt("open_output") # {} /\ out_file = <<sorted_outfits(outfits)>>

\* a run with two batched fetches resolved rows and wrote the file
C7_Witness ==
    /\ pc = "done"
    /\ BatchCount = 2
    /\ Len(processed) = 2
    /\ Len(outfits) > 1
    /\ out_file # <<OldFile>>

\* the segments after the template name
TemplateSegments(template) == Tail(Split(StripBrackets(template), <<"|">>))

SegKey(seg) == Strip(SplitOnce(seg, <<"=">>)[1])

SegValue(seg) == IF Len(SplitOnce(seg, <<"=">>)) = 2 THEN Strip(SplitOnce(seg, <<"=">>)[2]) ELSE <<"t","r","u","e">>

\* the mapping in which the segments at the places in use each contribute one entry
MappingOf(segs, use) ==
    [k \in {SegKey(segs[i]) : i \in use} |->
        SegValue(segs[CHOOSE i \in use :
                        SegKey(segs[i]) = k /\ \A j \in use : SegKey(segs[j]) = k => j <= i])]

TemplateExampleResult ==
    [k \in {<<"o","u","t","f","i","t">>, <<"a","d","d","o","n","1">>, <<"s","e","x">>} |->
        IF k = <<"o","u","t","f","i","t">> THEN <<"1","3","0">> ELSE IF k = <<"a","d","d","o","n","1">> THEN <<"t","r","u","e">> ELSE <<"f">>]

\* C8 as claimed: every segment after the first contributes one entry: split at
\* its first = into trimmed key and value, or, without =, whatever it is after
\* trimming, a key with the value "true"; later same keys overwrite.
C8_EverySegmentContributes ==
    Returned("parse_outfitter_template") =>
        res = MappingOf(TemplateSegments(arg), 1..Len(TemplateSegments(arg)))

\* C8 as amended: a segment without = contributes a key with the value "true"
\* only when it is not empty after trimming; a segment with = is split at its
\* first = into trimmed key and value; the first segment contributes nothing; a
\* later segment with the same key overwrites; the example yields exactly
\* {outfit: "130", addon1: "true", sex: "f"}.
C8_TemplateParser ==
    Returned("parse_outfitter_template") =>
        LET segs == TemplateSegments(arg)
            use == {i \in 1..Len(segs) : Contains(segs[i], <<"=">>) \/ Strip(segs[i]) # <<>>}
        IN /\ res = MappingOf(segs, use)
           /\ arg = TemplateExample => res = TemplateExampleResult

\* a template with an empty segment between two keyed ones was parsed
C8_Witness ==
    /\ Returned("parse_outfitter_template")
    /\ arg = <<"{","{","O","|","|","a","=","b","=","c","}","}">>
    /\ DOMAIN res = {<<"a">>}
    /\ res[<<"a">>] = <<"b","=","c">>

\* the cells of a line that begins, trimmed, with the row-cell marker
Cells(line) ==
    LET raw == Split(DropFirst(Strip(line), 2), <<"|","|">>)
    IN [i \in 1..Len(raw) |-> Strip(raw[i])]

IsDataRow(line) ==
    /\ StartsWith(Strip(line), <<"|"," ">>)
    /\ Len(Cells(line)) >= 3
    /\ StartsWith(Cells(line)[3], <<"{","{">>)

\* C9: the yielded sequence is exactly the lines that, trimmed, begin with the
\* row-cell marker, split on the cell separator into at least 3 trimmed
\* segments and have a third segment that starts with the template marker: one
\* triple of the first three segments per such line, in file order, nothing
\* for any other line.  A block of 3 rows and 2 other lines yields 3 triples.
C9_RowExtractor ==
    Returned("parse_wikitext_rows") =>
        LET data == SelectSeq(SplitLines(arg), IsDataRow)
        IN /\ Len(res) = Len(data)
           /\ \A i \in 1..Len(data) :
                 res[i] = <<Cells(data[i])[1], Cells(data[i])[2], Cells(data[i])[3]>>
           /\ arg = BlockExample =>
                 /\ Len(SplitLines(arg)) = 5
                 /\ res = <<<<<<"A">>, <<"l">>, <<"{","{","t","}","}">>>>, <<<<"B">>, <<"m">>, <<"{","{","u","|","x","}","}">>>>,
                            <<<<"C">>, <<"n">>, <<"{","{","v","}","}">>>>>>

\* the block of 3 rows and 2 other lines was extracted
C9_Witness ==
    /\ Returned("parse_wikitext_rows")
    /\ arg = BlockExample
    /\ Len(res) = 3

\* C10 as claimed: an element is skipped exactly when its name is missing or
\* empty or its looktype is missing or not an integer; every other element,
\* whatever its type attribute, an absent one included, is indexed, female for
\* the designated value and male otherwise.
C10_TypeNeverSkips ==
    Returned("load_outfits_xml_lookup") =>
        res = LoaderResult(SelectSeq(OutfitElements(arg), HasNameAndLookType))

\* C10 as amended: an element is skipped exactly when its name is missing or
\* empty, its looktype is missing or not an integer, or its type is missing;
\* every other element is indexed, female when type is the designated value and
\* male otherwise, appended to its gender's list in file order with duplicate
\* lookTypes kept, the direct index holding the last element of each lookType.
C10_CatalogueLoader ==
    Returned("load_outfits_xml_lookup") =>
        res = LoaderResult(SelectSeq(OutfitElements(arg), IsIndexed))

\* a file whose second element has the same lookType and no type was loaded:
\* the first element is indexed alone
C10_Witness ==
    /\ Returned("load_outfits_xml_lookup")
    /\ arg = <<<<Outfit(<<"1","0","0">>, <<"A">>, <<"0">>),
                 [tag |-> "outfit", attrib |-> [looktype |-> <<"1","0","0">>, name |-> <<"H">>]]>>>>
    /\ res.mapping[100].outfit_name = <<"A">>
    /\ Len(res.ordered["female"]) = 1
    /\ res.ordered["male"] = <<>>

(***************************************************************************)
(* Properties of the gender and of the catalogue id of a row                *)
(***************************************************************************)
\* the gender of a descriptor, NoSex when it has none
SexOf(d) == IF "sex" \in DOMAIN d THEN d["sex"] ELSE NoSex

\* the gender the template gives: key female present with an empty or truthy
\* value, else key sex through the gender-flag normalizer
TemplateSex(params) ==
    IF <<"f","e","m","a","l","e">> \in DOMAIN params
       /\ (params[<<"f","e","m","a","l","e">>] = <<>> \/ is_truthy_flag(params[<<"f","e","m","a","l","e">>]))
    THEN "female"
    ELSE IF <<"s","e","x">> \in DOMAIN params THEN normalize_gender(<<params[<<"s","e","x">>]>>)
    ELSE NoSex

\* the gender the indexes and the ordinal heuristic give to lookType k of a row
\* whose gender is still unknown
IndexSex(k) ==
    IF k \in DOMAIN looktype_map THEN looktype_map[k].sex
    ELSE IF k \in DOMAIN outfits_xml_lookup THEN outfits_xml_lookup[k].sex
    ELSE IF 0 <= k /\ k < Len(FileOrder(xml_file, "female")) THEN "female"
    ELSE NoSex

OrdinalList(info) == FileOrder(xml_file, IF "sex" \in DOMAIN info THEN info["sex"] ELSE "female")

\* lookType k matched neither index and is no position of the list
Unmatched(k, list) ==
    /\ k \notin DOMAIN looktype_map
    /\ k \notin DOMAIN outfits_xml_lookup
    /\ (k < 0 \/ k >= Len(list))

\* C12: every stored descriptor with a lookType has a catalogue outfit id and
\* one without a lookType has none.  When the lookType matched neither index
\* and is negative or at least the length of the ordinal list (also an empty
\* list), the resolution sets the outfit id to the raw lookType, leaves the
\* lookType unchanged and adds no outfit name and no gender.
C12_CatalogueId ==
    /\ [](\A i \in 1..Len(outfits) :
            "type" \in DOMAIN outfits[i][2] <=> "outfit_id" \in DOMAIN outfits[i][2])
    /\ [][(/\ rpc = "resolve"
           /\ "type" \in DOMAIN outfit_info
           /\ Unmatched(outfit_info["type"], OrdinalList(outfit_info))) =>
          /\ DOMAIN outfit_info' = DOMAIN outfit_info \cup {"outfit_id"}
          /\ outfit_info'["outfit_id"] = outfit_info["type"]
          /\ \A f \in DOMAIN outfit_info : outfit_info'[f] = outfit_info[f]]_vars
    /\ [][rpc = "store" => Get(outfits', Head(rows)[1]) = outfit_info]_vars

\* a negative lookType was stored as its own catalogue id, with no name or gender
C12_Witness ==
    /\ rpc = "done"
    /\ outfits # <<>>
    /\ LET d == Get(outfits, processed[1][1])
       IN /\ "type" \in DOMAIN d
          /\ d["type"] < 0
          /\ d["outfit_id"] = d["type"]
          /\ "outfit_name" \notin DOMAIN d
          /\ "sex" \notin DOMAIN d

====
